---- MODULE Spec2Model ----
(***************************************************************************)
(* StealthScout profile lifecycle: the create pipeline                     *)
(* (pipelines/insert_profile.py), the refresh pipeline and company batch   *)
(* (pipelines/profile_refresh.py) and the status classifier gateway        *)
(* (pipelines/profile_status_classifier.py), over a table store.           *)
(*                                                                         *)
(* Python values are encoded so that every field keeps one TLA+ type:      *)
(*   None  -> the string "NULL" (human and classifier text is lower-cased  *)
(*            by the code, so it never collides), 0 for a null timestamp   *)
(*   True / False -> the strings "True" / "False"                          *)
(*   dict  -> record, list -> sequence, str -> string, URL -> sequence of  *)
(*            one-character strings (so that endswith('/') is computed)    *)
(***************************************************************************)
EXTENDS Integers, Sequences, FiniteSets, TLC

VARIABLES
    profiles,     \* rows of the two profile tables, in insertion order
    transitions,  \* rows of stealth_founder_status_update_table
    dbUp,         \* whether the store answers the call about to be made
    clock,        \* operations started so far; datetime.utcnow() reads it
    pc,           \* position of the single thread of control
    req,          \* arguments of the running pipeline: url, company, table
    profile,      \* the scraped (create) or fresh (refresh) profile
    current,      \* the stored row fetched by the refresh
    detected,     \* the change-set of the refresh
    cls,          \* frame of check_profile_status_with_verification
    labels,       \* label values computed by the create pipeline
    result,       \* value returned by refresh_single_profile
    batch,        \* the company batch: urls still to do and its stats
    log,          \* the last outcome logged by a finished pipeline
    examples      \* lines of profile_status_classification_examples.jsonl

vars == <<profiles, transitions, dbUp, clock, pc, req, profile, current,
          detected, cls, labels, result, batch, log, examples>>

-----------------------------------------------------------------------------
(* Bounds of the model *)

MaxOps == 2    \* operations (create calls and company batches) per run
MaxRows == 2   \* rows the profile tables hold
MaxSaved == 1  \* training examples the human saves per run

-----------------------------------------------------------------------------
(* Encoding of Python values *)

None == "NULL"
PyTrue == "True"
PyFalse == "False"
NoTimestamp == 0
Unset == << >>
Unanswered == "UNANSWERED"   \* final_status before the human has answered

PyBool(b) == IF b THEN PyTrue ELSE PyFalse

\* dict.get(key, default)
Get(d, key, default) == IF key \in DOMAIN d THEN d[key] ELSE default

Range(s) == {s[i] : i \in DOMAIN s}

RECURSIVE SeqFilter(_, _)
SeqFilter(s, keep) ==
    IF s = << >> THEN << >>
    ELSE IF Head(s) \in keep THEN <<Head(s)>> \o SeqFilter(Tail(s), keep)
         ELSE SeqFilter(Tail(s), keep)

-----------------------------------------------------------------------------
(* Inputs the environment supplies, drawn from small sets *)

EmployeeTable == "Current-Employee-Profiles"
FounderTable == "Unicorn-Stealth-Founder-Profiles"
Tables == {EmployeeTable, FounderTable}

Companies == {"Acme", "Globex"}

\* The table the operator picks at the prompt of main()
InputTables == {FounderTable}

\* URLs an operator types at the prompt of main()
TypedURLs == {<<"a">>, <<"a", "/">>}

Exp(company, title, duration, date_range) ==
    [company |-> company, company_linkedin_url |-> "",
     date_range |-> date_range, duration |-> duration, title |-> title]

Edu(school) ==
    [school |-> school, degree |-> "BS", field_of_study |-> "CS",
     date_range |-> "2010 - 2014"]

\* What the scrape API reports about a person at different times
BodyA ==
    [first_name |-> "Ann", last_name |-> "Lee", full_name |-> "Ann Lee",
     headline |-> "Founder at Acme", job_title |-> "Founder",
     follower_count |-> 100, connection_count |-> 50,
     city |-> "SF", location |-> "SF",
     experience |-> <<Exp("Acme", "Founder", "1 yr", "2023 - Present")>>,
     education |-> <<Edu("MIT")>>]

BodyB ==
    [BodyA EXCEPT
        !.experience = <<Exp("Acme", "Founder", "1 yr 1 mo", "2023 - Present")>>]

BodyC ==
    [BodyA EXCEPT
        !.headline = "Building something new",
        !.experience = <<Exp("Stealth", "Co-Founder", "1 mo", "2024 - Present"),
                         Exp("Acme", "Founder", "1 yr", "2023 - 2024")>>]

\* The person changed their last name
BodyD ==
    [BodyA EXCEPT !.last_name = "Ray", !.full_name = "Ann Ray"]

Bodies == {BodyA, BodyB, BodyC, BodyD}

\* What the scrape API reports when a profile is first created
FirstBodies == {BodyA}

\* The linkedin_url field of the payload: the requested URL, or '' (the
\* default of profile_data.get('linkedin_url', '')) when the payload lacks it
PayloadURLs(url) == {url, << >>}

\* Text the classification capability answers with, lower-cased and split
AIResults ==
    {[status |-> "stealth", confidence_label |-> "high"],
     [status |-> "stealth", confidence_label |-> "low"]}

\* What the human types when overriding a status
HumanStatuses == {"recently_quit"}

\* What the human types when asked for a role statement
HumanRoles == {"advisor"}

\* What the human types when asked for a company of interest
HumanCompanies == {"acme"}

\* What the senior-operator classification answers with
SeniorResponses == {"true"}

\* What the human types when asked for the senior-operator label
SeniorManual == {"true"}

\* The error kinds fetch_fresh_profile_data returns
FetchErrors ==
    {"rate_limit_exceeded", "api_error", "network_error", "unexpected_error"}

-----------------------------------------------------------------------------
(* insert_profile.py: pure helpers *)

\* str.lower() on the company and response texts of the model
Lower(s) ==
    CASE s = "Acme" -> "acme"
      [] s = "ACME" -> "acme"
      [] s = "Globex" -> "globex"
      [] s = "Stealth" -> "stealth"
      [] s = "TRUE" -> "true"
      [] s = "FALSE" -> "false"
      [] OTHER -> s

ensure_trailing_slash(url) ==
    IF Len(url) > 0 /\ url[Len(url)] = "/" THEN url ELSE Append(url, "/")

\* [exp.get('company', '') for exp in experiences if exp.get('company')]
RECURSIVE CompanyList(_)
CompanyList(experience) ==
    IF experience = << >> THEN << >>
    ELSE IF Head(experience).company # ""
         THEN <<Head(experience).company>> \o CompanyList(Tail(experience))
         ELSE CompanyList(Tail(experience))

\* The profile linkedin_profile_scraper builds from a 200 response
ScrapedProfile(body, url) ==
    [first_name |-> body.first_name, last_name |-> body.last_name,
     full_name |-> body.full_name, headline |-> body.headline,
     linkedin_url |-> url, job_title |-> body.job_title,
     follower_count |-> body.follower_count,
     connection_count |-> body.connection_count,
     city |-> body.city, location |-> body.location,
     experience |-> body.experience,
     previous_companies |-> CompanyList(body.experience),
     education |-> body.education]

\* The profile fetch_fresh_profile_data builds: no previous_companies key
FreshProfile(body, url) ==
    [first_name |-> body.first_name, last_name |-> body.last_name,
     full_name |-> body.full_name, headline |-> body.headline,
     linkedin_url |-> url, job_title |-> body.job_title,
     follower_count |-> body.follower_count,
     connection_count |-> body.connection_count,
     city |-> body.city, location |-> body.location,
     experience |-> body.experience,
     education |-> body.education]

\* The characters of the titles of the model
Chars(s) ==
    CASE s = "Founder" ->
            <<"F", "o", "u", "n", "d", "e", "r">>
      [] s = "Co-Founder" ->
            <<"C", "o", "-", "F", "o", "u", "n", "d", "e", "r">>
      [] s = "Co Founder" ->
            <<"C", "o", " ", "F", "o", "u", "n", "d", "e", "r">>
      [] s = "CEO" ->
            <<"C", "E", "O">>
      [] s = "Chief Executive Officer" ->
            <<"C", "h", "i", "e", "f", " ", "E", "x", "e", "c", "u", "t",
            "i", "v", "e", " ", "O", "f", "f", "i", "c", "e", "r">>
      [] s = "Cofounder & CTO" ->
            <<"C", "o", "f", "o", "u", "n", "d", "e", "r", " ", "&", " ",
            "C", "T", "O">>
      [] s = "Engineer" ->
            <<"E", "n", "g", "i", "n", "e", "e", "r">>
      [] s = "VP Sales" ->
            <<"V", "P", " ", "S", "a", "l", "e", "s">>

\* str.lower(), character by character
LowerChar(c) ==
    CASE c = "A" -> "a"
      [] c = "B" -> "b"
      [] c = "C" -> "c"
      [] c = "D" -> "d"
      [] c = "E" -> "e"
      [] c = "F" -> "f"
      [] c = "G" -> "g"
      [] c = "H" -> "h"
      [] c = "I" -> "i"
      [] c = "J" -> "j"
      [] c = "K" -> "k"
      [] c = "L" -> "l"
      [] c = "M" -> "m"
      [] c = "N" -> "n"
      [] c = "O" -> "o"
      [] c = "P" -> "p"
      [] c = "Q" -> "q"
      [] c = "R" -> "r"
      [] c = "S" -> "s"
      [] c = "T" -> "t"
      [] c = "U" -> "u"
      [] c = "V" -> "v"
      [] c = "W" -> "w"
      [] c = "X" -> "x"
      [] c = "Y" -> "y"
      [] c = "Z" -> "z"
      [] OTHER -> c

LowerChars(s) == [i \in DOMAIN s |-> LowerChar(s[i])]

founder_keywords ==
    {<<"f", "o", "u", "n", "d", "e", "r">>,
     <<"c", "o", "-", "f", "o", "u", "n", "d", "e", "r">>,
     <<"c", "o", " ", "f", "o", "u", "n", "d", "e", "r">>,
     <<"c", "h", "i", "e", "f", " ", "e", "x", "e", "c", "u", "t", "i", "v",
     "e", " ", "o", "f", "f", "i", "c", "e", "r">>,
     <<"c", "e", "o">>}

\* keyword in role
Contains(keyword, role) ==
    \E i \in 1..(Len(role) - Len(keyword) + 1) :
       SubSeq(role, i, i + Len(keyword) - 1) = keyword

\* any(keyword in role for keyword in founder_keywords), role the
\* lower-cased title
is_founder_role(title) ==
    \E keyword \in founder_keywords :
       Contains(keyword, LowerChars(Chars(title)))

\* Variant that departs from the source: one founder role is enough
check_repeat_founder_at_least_one(p) ==
    IF p.experience = << >> THEN PyFalse
    ELSE PyBool(Cardinality({i \in DOMAIN p.experience :
                                is_founder_role(p.experience[i].title)}) >= 1)

check_repeat_founder(p) ==
    IF p.experience = << >> THEN PyFalse
    ELSE PyBool(Cardinality({i \in DOMAIN p.experience :
                                is_founder_role(p.experience[i].title)}) > 1)

\* Indices of the experience entries at search_company, case-insensitively
RelevantExperiences(p, search_company) ==
    {i \in DOMAIN p.experience :
        Lower(p.experience[i].company) = Lower(search_company)}

\* extract_company_role: the f-string is kept as its fragments; typed is
\* what the human answers when asked for the role statement
extract_company_role(p, search_company, typed) ==
    LET rel == RelevantExperiences(p, search_company) IN
    IF p.experience = << >> THEN <<"">>
    ELSE IF Cardinality(rel) = 1
         THEN LET e == p.experience[CHOOSE i \in rel : TRUE] IN
              <<e.title, " at ", search_company, " for ", e.duration>>
         ELSE <<typed>>

RoleAsksHuman(p, search_company) ==
    p.experience # << >> /\ Cardinality(RelevantExperiences(p, search_company)) # 1

\* check_senior_operator: ai_response is the labelling call's text, or None
\* when the call failed; manual is what the human then types
check_senior_operator(p, ai_response, manual) ==
    IF p.experience = << >> THEN PyFalse
    ELSE IF ai_response # None
         THEN PyBool(Lower(ai_response) = "true")
         ELSE manual

prepare_profile_w_labels(profile_status, is_repeat_founder, role, url, is_senior_operator) ==
    [profile_status |-> profile_status.status,
     status_confidence_label |-> profile_status.confidence_label,
     linkedin_url |-> url,
     is_repeat_founder |-> is_repeat_founder,
     role_at_company |-> role,
     is_senior_operator |-> is_senior_operator]

-----------------------------------------------------------------------------
(* The store: select / insert / update on the profile tables.  A row keeps  *)
(* its table in the field table and its current_company / search_company   *)
(* column in the field company; role_at_current_company /                  *)
(* role_at_company_searched is the field role_at_company.                  *)

\* .eq("linkedin_url", url).eq(company_param, company) on table
Matching(rows, table, url, company) ==
    {i \in DOMAIN rows : /\ rows[i].table = table
                         /\ rows[i].linkedin_url = url
                         /\ rows[i].company = company}

\* .eq('linkedin_url', url) on table
MatchingUrl(rows, table, url) ==
    {i \in DOMAIN rows : rows[i].table = table /\ rows[i].linkedin_url = url}

\* .update(patch) on the selected rows
ApplyPatch(rows, sel, patch) ==
    [i \in DOMAIN rows |->
        IF i \in sel
        THEN [f \in DOMAIN rows[i] |->
                IF f \in DOMAIN patch THEN patch[f] ELSE rows[i][f]]
        ELSE rows[i]]

check_existing_profile(rows, up, url, company, table) ==
    IF ~up THEN "error"
    ELSE IF Matching(rows, table, url, company) # {} THEN PyTrue ELSE PyFalse

\* The row insert_profiles_to_db sends; the store fills the other columns
\* with null and assigns the id
InsertData(p, company, table, id) ==
    [id |-> id, table |-> table, company |-> company,
     linkedin_url |-> p.linkedin_url,
     first_name |-> p.first_name, last_name |-> p.last_name,
     full_name |-> p.full_name, headline |-> p.headline,
     job_title |-> p.job_title, follower_count |-> p.follower_count,
     connection_count |-> p.connection_count, location |-> p.location,
     experience |-> p.experience, education |-> p.education,
     previous_companies |-> p.previous_companies,
     profile_status |-> None, status_confidence_label |-> None,
     is_repeat_founder |-> None, is_senior_operator |-> None,
     role_at_company |-> <<None>>,
     last_attempted_refresh_timestamp |-> NoTimestamp,
     refresh_status |-> None]

\* The patch update_profile_labels sends
LabelPatch(profile_data) ==
    [is_repeat_founder |-> Get(profile_data, "is_repeat_founder", PyFalse),
     role_at_company |-> Get(profile_data, "role_at_company", <<"">>),
     is_senior_operator |-> Get(profile_data, "is_senior_operator", PyFalse),
     profile_status |-> Get(profile_data, "profile_status", None),
     status_confidence_label |-> Get(profile_data, "status_confidence_label", None)]

\* update_profile_labels: the rows its filter selects
LabelTargets(rows, url, table) == MatchingUrl(rows, table, url)

-----------------------------------------------------------------------------
(* profile_status_classifier.py *)

\* The file of training examples at the start of a run
ExamplesInit ==
    <<[headline |-> "Stealth Startup",
       recent_experience |-> Exp("Stealth", "Co-Founder", "1 mo", "2024 - Present"),
       assigned_status |-> "stealth"]>>

\* The keys of examples_by_status
examples_by_status == {"stealth", "building_in_public", "recently_quit",
                       "currently_employed"}

\* load_and_format_examples: the lines whose assigned_status is a key of
\* examples_by_status; with at most four lines per status random.sample
\* keeps them all
load_and_format_examples(lines) ==
    {lines[i] : i \in {j \in DOMAIN lines :
                          lines[j].assigned_status \in examples_by_status}}

\* The example the human saves after confirming or correcting a status
training_example(p, final_status) ==
    [headline |-> Get(p, "headline", None),
     recent_experience |->
        IF Get(p, "experience", << >>) # << >> THEN p.experience[1] ELSE << >>,
     assigned_status |-> final_status]

\* What get_profile_status returns when the call or the parse raised
ClassifierFallback == [status |-> "", confidence_label |-> "low"]

\* What get_profile_status can return for test_profile: the prompt reads
\* test_profile['experience'][0], so an empty experience always raises
get_profile_status_results(test_profile) ==
    IF test_profile.experience = << >> THEN {ClassifierFallback}
    ELSE {ClassifierFallback} \cup AIResults

\* Variant that departs from the source: the caller's flag alone decides
should_auto_approve_flag_only(auto_approve, old_status, new_status) ==
    auto_approve

\* should_auto_approve = auto_approve and (old_status == new_status)
should_auto_approve(auto_approve, old_status, new_status) ==
    auto_approve /\ old_status = new_status

\* The dict check_profile_status_with_verification returns
Classification(status, confidence_label) ==
    [kind |-> "dict", status |-> status, confidence_label |-> confidence_label]

\* The create pipeline's test `profile_status is None` on the returned value
IsNoneValue(v) == v.kind = "None"

ClsIdle ==
    [auto_approve |-> FALSE, old_status |-> None, ret |-> "idle",
     examples |-> {}, ai |-> Unset, ai_failed |-> FALSE, asked |-> FALSE,
     final_status |-> Unanswered, done |-> FALSE, result |-> Unset]

ClsCall(auto_approve, old_status, ret) ==
    [ClsIdle EXCEPT !.auto_approve = auto_approve,
                    !.old_status = old_status, !.ret = ret]

-----------------------------------------------------------------------------
(* profile_refresh.py: pure parts *)

simple_fields ==
    <<"first_name", "last_name", "headline", "job_title",
      "location", "follower_count", "connection_count">>

\* Variant that departs from the source: the duration is not compared
exp_fields_without_duration == <<"company", "title", "date_range">>

exp_fields == <<"company", "title", "duration", "date_range">>

\* f"recent_experience_{field}"
RecentName(field) ==
    CASE field = "company" -> "recent_experience_company"
      [] field = "title" -> "recent_experience_title"
      [] field = "duration" -> "recent_experience_duration"
      [] field = "date_range" -> "recent_experience_date_range"

RECURSIVE MapRecent(_)
MapRecent(fs) ==
    IF fs = << >> THEN << >> ELSE <<RecentName(Head(fs))>> \o MapRecent(Tail(fs))

\* set(exp.get("company", "") for exp in new_exp if exp.get("company"))
CompanySet(experience) == Range(CompanyList(experience))

\* Variant that departs from the source: every role is checked in detail
recent_changed_any_role(old_exp, new_exp) ==
    {f \in Range(exp_fields) :
        \E i \in DOMAIN old_exp \cap DOMAIN new_exp : old_exp[i][f] # new_exp[i][f]}

\* Check first role in detail (most recent): the exp_fields that differ
recent_changed(old_exp, new_exp) ==
    IF old_exp # << >> /\ new_exp # << >>
    THEN {f \in Range(exp_fields) : old_exp[1][f] # new_exp[1][f]}
    ELSE {}

\* Variant that departs from the source: the simple fields do not set the flag
has_changes_flag_without_simple(simple, expcount, recent, educount, companies) ==
    \/ expcount # << >>
    \/ recent # << >>
    \/ educount # << >>
    \/ companies # << >>

\* changes["has_changes"]: False, set to True in every branch that appends
has_changes_flag(simple, expcount, recent, educount, companies) ==
    \/ simple # << >>
    \/ expcount # << >>
    \/ recent # << >>
    \/ educount # << >>
    \/ companies # << >>

compare_profile_changes(old_profile, new_profile) ==
    LET old_exp == Get(old_profile, "experience", << >>)
        new_exp == Get(new_profile, "experience", << >>)
        old_edu == Get(old_profile, "education", << >>)
        new_edu == Get(new_profile, "education", << >>)
        old_companies == Range(Get(old_profile, "previous_companies", << >>))
        new_companies == CompanySet(new_exp)
        simple == SeqFilter(simple_fields,
                     {f \in Range(simple_fields) :
                         Get(old_profile, f, "") # Get(new_profile, f, "")})
        expcount == IF Len(old_exp) # Len(new_exp)
                    THEN <<"experience_count">> ELSE << >>
        recent == MapRecent(SeqFilter(exp_fields, recent_changed(old_exp, new_exp)))
        educount == IF Len(old_edu) # Len(new_edu)
                    THEN <<"education_count">> ELSE << >>
        companies == IF old_companies # new_companies
                     THEN <<"previous_companies">> ELSE << >>
        changed == simple \o expcount \o recent \o educount \o companies
        pair(f) ==
            CASE f \in Range(simple_fields) ->
                    [old |-> Get(old_profile, f, ""), new |-> Get(new_profile, f, "")]
              [] f = "experience_count" ->
                    [old |-> Len(old_exp), new |-> Len(new_exp)]
              [] f = "education_count" ->
                    [old |-> Len(old_edu), new |-> Len(new_edu)]
              [] f = "previous_companies" ->
                    [old |-> old_companies, new |-> new_companies]
              [] OTHER ->
                    LET e == CHOOSE x \in Range(exp_fields) : RecentName(x) = f IN
                    [old |-> old_exp[1][e], new |-> new_exp[1][e]]
    IN  [changed_fields |-> changed,
         changes |-> [f \in Range(changed) |-> pair(f)],
         has_changes |-> has_changes_flag(simple, expcount, recent,
                                          educount, companies)]

non_critical_fields ==
    {"follower_count", "connection_count", "recent_experience_duration"}

\* Variant that departs from the source: one non-critical change is enough
auto_approve_of_some_non_critical(detected_changes) ==
    Range(detected_changes.changed_fields) \cap non_critical_fields # {}

\* auto_approve = len(critical_changes) == 0 and len(changed_fields) > 0
auto_approve_of(detected_changes) ==
    LET changed_fields == Range(detected_changes.changed_fields)
        critical_changes == changed_fields \ non_critical_fields
    IN  critical_changes = {} /\ changed_fields # {}

\* Variant that departs from the source: previous_companies is not rebuilt
fields_to_update_stale_companies(new_profile) ==
    [first_name |-> Get(new_profile, "first_name", ""),
     last_name |-> Get(new_profile, "last_name", ""),
     headline |-> Get(new_profile, "headline", ""),
     job_title |-> Get(new_profile, "job_title", ""),
     location |-> Get(new_profile, "location", ""),
     follower_count |-> Get(new_profile, "follower_count", ""),
     connection_count |-> Get(new_profile, "connection_count", ""),
     experience |-> Get(new_profile, "experience", << >>),
     education |-> Get(new_profile, "education", << >>)]

\* updates["fields_to_update"] before the classification
fields_to_update(new_profile) ==
    [first_name |-> Get(new_profile, "first_name", ""),
     last_name |-> Get(new_profile, "last_name", ""),
     headline |-> Get(new_profile, "headline", ""),
     job_title |-> Get(new_profile, "job_title", ""),
     location |-> Get(new_profile, "location", ""),
     follower_count |-> Get(new_profile, "follower_count", ""),
     connection_count |-> Get(new_profile, "connection_count", ""),
     experience |-> Get(new_profile, "experience", << >>),
     education |-> Get(new_profile, "education", << >>),
     previous_companies |-> CompanyList(Get(new_profile, "experience", << >>))]

refresh_metadata(now) ==
    [last_attempted_refresh_timestamp |-> now, refresh_status |-> "success"]

\* Variant that departs from the source: the status is always taken as changed
status_differs_always(classification, old_profile) == TRUE

\* if classification["status"] != old_profile.get("profile_status")
status_differs(classification, old_profile) ==
    classification.status # Get(old_profile, "profile_status", None)

\* Variant that departs from the source: the confidence label is always written
prepared_updates_with_confidence(old_profile, new_profile, classification, now) ==
    [fields_to_update |->
        IF status_differs(classification, old_profile)
        THEN [profile_status |-> classification.status,
              status_confidence_label |-> classification.confidence_label]
             @@ fields_to_update(new_profile)
        ELSE [status_confidence_label |-> classification.confidence_label]
             @@ fields_to_update(new_profile),
     refresh_metadata |-> refresh_metadata(now)]

\* prepare_profile_updates after the classification returned: the updates
prepared_updates(old_profile, new_profile, classification, now) ==
    [fields_to_update |->
        IF status_differs(classification, old_profile)
        THEN [profile_status |-> classification.status,
              status_confidence_label |-> classification.confidence_label]
             @@ fields_to_update(new_profile)
        ELSE fields_to_update(new_profile),
     refresh_metadata |-> refresh_metadata(now)]

\* ... and the change-set it appends profile_status to
prepared_changes(old_profile, detected_changes, classification) ==
    IF status_differs(classification, old_profile)
    THEN [detected_changes EXCEPT
            !.changed_fields = Append(@, "profile_status"),
            !.changes = ("profile_status" :>
                            [old |-> Get(old_profile, "profile_status", None),
                             new |-> classification.status,
                             confidence |-> classification.confidence_label]) @@ @]
    ELSE detected_changes

\* Variant that departs from the source: the refresh metadata is left out
update_data_fields_only(updates) ==
    Get(updates, "fields_to_update", << >>)

\* update_data = {**fields_to_update, **refresh_metadata}
update_data(updates) ==
    Get(updates, "refresh_metadata", << >>) @@ Get(updates, "fields_to_update", << >>)

\* update_profile_in_db: the rows after the call, and the bool it returns
updated_rows(rows, up, url, updates, company, table) ==
    IF up /\ table \in Tables
    THEN ApplyPatch(rows, Matching(rows, table, url, company), update_data(updates))
    ELSE rows

update_success(rows, up, url, company, table) ==
    up /\ table \in Tables /\ Matching(rows, table, url, company) # {}

\* Variant that departs from the source: the company filter is left out
get_current_profile_any_company(rows, up, url, table, company) ==
    LET sel == MatchingUrl(rows, table, url) IN
    IF ~up \/ table \notin Tables THEN [error |-> "Database error"]
    ELSE IF sel # {} THEN rows[CHOOSE i \in sel : \A j \in sel : i <= j]
         ELSE [error |-> "Profile not found in database"]

\* get_current_profile: response.data[0], or an error dict
get_current_profile(rows, up, url, table, company) ==
    LET sel == Matching(rows, table, url, company) IN
    IF ~up \/ table \notin Tables THEN [error |-> "Database error"]
    ELSE IF sel # {} THEN rows[CHOOSE i \in sel : \A j \in sel : i <= j]
         ELSE [error |-> "Profile not found in database"]

\* get_company_profiles: the linkedin_url of every row of the company
RECURSIVE UrlsOf(_, _, _)
UrlsOf(rows, company, table) ==
    IF rows = << >> THEN << >>
    ELSE IF Head(rows).table = table /\ Head(rows).company = company
         THEN <<Head(rows).linkedin_url>> \o UrlsOf(Tail(rows), company, table)
         ELSE UrlsOf(Tail(rows), company, table)

get_company_profiles(rows, up, company, table) ==
    IF up /\ table \in Tables THEN UrlsOf(rows, company, table) ELSE << >>

\* main(): the test that decides whether a StatusTransition is inserted
has_status_change(res) ==
    LET changes == Get(res, "changes", << >>) IN
    "profile_status" \in Range(Get(changes, "changed_fields", << >>))

\* main(): experience_changes
experience_changes(changes) ==
    LET present == {f \in Range(exp_fields) : RecentName(f) \in DOMAIN changes.changes} IN
    IF present = {} THEN << >>
    ELSE [f \in present |-> changes.changes[RecentName(f)]]

\* Variant that departs from the source: both roles are read from the fresh experience
status_update_fresh_roles(res, url) ==
    LET changes == res.changes
        status_change == changes.changes["profile_status"]
    IN  [profile_id |-> res.profile_id,
         linkedin_url |-> url,
         old_status |-> status_change.old,
         new_status |-> status_change.new,
         status_confidence |-> Get(status_change, "confidence", "HIGH"),
         experience_changes |-> experience_changes(changes),
         prev_role |-> IF res.new_exp # << >> THEN res.new_exp[1] ELSE Unset,
         curr_role |-> IF res.new_exp # << >> THEN res.new_exp[1] ELSE Unset]

\* main(): the status_update row
status_update(res, url) ==
    LET changes == res.changes
        status_change == changes.changes["profile_status"]
    IN  [profile_id |-> res.profile_id,
         linkedin_url |-> url,
         old_status |-> status_change.old,
         new_status |-> status_change.new,
         status_confidence |-> Get(status_change, "confidence", "HIGH"),
         experience_changes |-> experience_changes(changes),
         prev_role |-> IF res.old_exp # << >> THEN res.old_exp[1] ELSE Unset,
         curr_role |-> IF res.new_exp # << >> THEN res.new_exp[1] ELSE Unset]

StatsInit == [processed |-> 0, updated |-> 0, failed |-> 0, status_changes |-> << >>]

-----------------------------------------------------------------------------
(* State machine *)

Init ==
    /\ profiles = << >>
    /\ transitions = << >>
    /\ dbUp = TRUE
    /\ clock = 0
    /\ pc = "idle"
    /\ req = Unset
    /\ profile = Unset
    /\ current = Unset
    /\ detected = Unset
    /\ cls = ClsIdle
    /\ labels = Unset
    /\ result = Unset
    /\ batch = Unset
    /\ log = "none"
    /\ examples = ExamplesInit

\* A pipeline returns to the prompt: its locals are gone
Return(outcome) ==
    /\ pc' = "idle"
    /\ req' = Unset
    /\ profile' = Unset
    /\ current' = Unset
    /\ detected' = Unset
    /\ cls' = ClsIdle
    /\ labels' = Unset
    /\ result' = Unset
    /\ batch' = Unset
    /\ log' = outcome

\* The positions at which the next step calls the store
StoreCallNext ==
    \/ pc \in {"c_check", "c_insert", "c_update", "b_list", "r_get",
               "r_update", "r_nochange"}
    \/ pc = "b_handle" /\ has_status_change(result)

\* The store rejects or fails the call the thread is about to make (every
\* store call is followed by dbUp' = TRUE: the outcome is per call)
StoreFails ==
    /\ StoreCallNext
    /\ dbUp
    /\ dbUp' = FALSE
    /\ UNCHANGED <<profiles, transitions, clock, pc, req, profile, current,
                   detected, cls, labels, result, batch, log,
                   examples>>

(* ---- create pipeline: insert_profile.main, process_linkedin_profile ---- *)

\* main(): url = ensure_trailing_slash(url); process_linkedin_profile(...)
StartCreate(typed, company, table) ==
    /\ pc = "idle"
    /\ clock < MaxOps
    /\ \/ Len(profiles) < MaxRows
       \/ Matching(profiles, table, ensure_trailing_slash(typed), company) # {}
    /\ clock' = clock + 1
    /\ pc' = "c_check"
    /\ req' = [url |-> ensure_trailing_slash(typed), company |-> company,
               table |-> table]
    /\ log' = "none"
    /\ UNCHANGED <<profiles, transitions, dbUp, profile, current, detected,
                   cls, labels, result, batch,
                   examples>>

\* Variant that departs from the source: anything but True counts as a new profile
ProfileIsNew_not_true(existing) == existing # PyTrue

\* if existing == False: scrape and insert; else: the pipeline ends
ProfileIsNew(existing) == existing = PyFalse

CheckExisting ==
    /\ pc = "c_check"
    /\ LET existing == check_existing_profile(profiles, dbUp, req.url,
                                              req.company, req.table) IN
       IF ProfileIsNew(existing)
       THEN /\ pc' = "c_scrape"
            /\ UNCHANGED <<req, profile, current, detected, cls, labels,
                           result, batch, log>>
       ELSE Return(IF existing = PyTrue THEN "exists" ELSE "check_error")
    /\ dbUp' = TRUE
    /\ UNCHANGED <<profiles, transitions, clock,
        examples>>

\* linkedin_profile_scraper answers with a profile
ScrapeOk ==
    /\ pc = "c_scrape"
    /\ \E body \in FirstBodies, url \in PayloadURLs(req.url) :
          profile' = ScrapedProfile(body, url)
    /\ pc' = "c_insert"
    /\ UNCHANGED <<profiles, transitions, dbUp, clock, req, current, detected,
                   cls, labels, result, batch, log,
                   examples>>

\* ... or with an error dict, or raises: the pipeline ends
ScrapeFails ==
    /\ pc = "c_scrape"
    /\ Return("scrape_failed")
    /\ UNCHANGED <<profiles, transitions, dbUp, clock,
        examples>>

\* insert_profiles_to_db, then the call of the classifier gateway
InsertProfile ==
    /\ pc = "c_insert"
    /\ IF req.table \notin Tables
       THEN /\ Return("pipeline_failed")
            /\ UNCHANGED profiles
       ELSE /\ profiles' =
                  IF dbUp
                  THEN Append(profiles, InsertData(profile, req.company,
                                                   req.table, Len(profiles) + 1))
                  ELSE profiles
            /\ pc' = "cls_ai"
            /\ cls' = ClsCall(TRUE, None, "c_status")
            /\ UNCHANGED <<req, profile, current, detected, labels, result,
                           batch, log>>
    /\ dbUp' = TRUE
    /\ UNCHANGED <<transitions, clock,
        examples>>

(* ---- check_profile_status_with_verification ---- *)

\* get_profile_status, then the auto-approval decision
GetProfileStatus ==
    /\ pc = "cls_ai"
    /\ \E ai \in get_profile_status_results(profile) :
          IF should_auto_approve(cls.auto_approve, cls.old_status, ai.status)
          THEN /\ cls' = [cls EXCEPT
                            !.examples = load_and_format_examples(examples),
                            !.ai = ai, !.ai_failed = (ai = ClassifierFallback),
                            !.done = TRUE,
                            !.result = Classification(ai.status, ai.confidence_label)]
               /\ pc' = cls.ret
          ELSE /\ cls' = [cls EXCEPT
                            !.examples = load_and_format_examples(examples),
                            !.ai = ai, !.ai_failed = (ai = ClassifierFallback)]
               /\ pc' = "cls_human"
    /\ UNCHANGED <<profiles, transitions, dbUp, clock, req, profile, current,
                   detected, labels, result, batch, log,
                   examples>>

\* The human answers 'y', or anything else and types a status, and answers
\* 'n' when asked whether to save it as a training example
HumanVerify ==
    /\ pc = "cls_human"
    /\ \E final \in {cls.ai.status} \cup HumanStatuses :
          cls' = [cls EXCEPT
                    !.asked = TRUE, !.final_status = final, !.done = TRUE,
                    !.result = Classification(final, cls.ai.confidence_label)]
    /\ examples' = examples
    /\ pc' = cls.ret
    /\ UNCHANGED <<profiles, transitions, dbUp, clock, req, profile, current,
                   detected, labels, result, batch, log>>

\* ... or answers 'y' to it: the example is appended to the file
HumanVerifySaves ==
    /\ pc = "cls_human"
    /\ Len(examples) < Len(ExamplesInit) + MaxSaved
    /\ \E final \in {cls.ai.status} \cup HumanStatuses :
          /\ cls' = [cls EXCEPT
                    !.asked = TRUE, !.final_status = final, !.done = TRUE,
                    !.result = Classification(final, cls.ai.confidence_label)]
          /\ examples' = Append(examples, training_example(profile, final))
    /\ pc' = cls.ret
    /\ UNCHANGED <<profiles, transitions, dbUp, clock, req, profile, current,
                   detected, labels, result, batch, log>>

\* input() raises before the answer, or the exemplar file cannot be written
\* after it: the except branch returns status None, confidence low
HumanVerifyRaises ==
    /\ pc = "cls_human"
    /\ \E final \in {Unanswered, cls.ai.status} \cup HumanStatuses :
          cls' = [cls EXCEPT
                    !.asked = TRUE, !.final_status = final, !.done = TRUE,
                    !.result = Classification(None, "low")]
    /\ pc' = cls.ret
    /\ UNCHANGED <<profiles, transitions, dbUp, clock, req, profile, current,
                   detected, labels, result, batch, log,
                   examples>>

(* ---- create pipeline, after the classification ---- *)

\* Variant that departs from the source: the target company is never looked up
target_in_previous_companies_assumed(target_company, p) == TRUE

\* target_company in previous_companies
target_in_previous_companies(target_company, p) ==
    target_company \in Range(Get(p, "previous_companies", << >>))

\* if profile_status is None: return; then the company of interest
ChooseCompany ==
    /\ pc = "c_status"
    /\ IF IsNoneValue(cls.result)
       THEN Return("skipped")
       ELSE /\ IF target_in_previous_companies(req.company, profile)
               THEN labels' = [company_of_interest |-> req.company,
                               asked_company |-> FALSE]
               ELSE \E typed \in HumanCompanies :
                       labels' = [company_of_interest |-> typed,
                                  asked_company |-> TRUE]
            /\ pc' = "c_labels"
            /\ UNCHANGED <<req, profile, current, detected, cls, result,
                           batch, log>>
    /\ UNCHANGED <<profiles, transitions, dbUp, clock,
        examples>>

\* extract_company_role, check_senior_operator, check_repeat_founder
ComputeLabels ==
    /\ pc = "c_labels"
    /\ \E typed \in HumanRoles, ai_response \in SeniorResponses,
          manual \in SeniorManual :
          labels' =
             [role_at_company |->
                 extract_company_role(profile, labels.company_of_interest, typed),
              is_senior_operator |->
                 check_senior_operator(profile, ai_response, manual),
              is_repeat_founder |-> check_repeat_founder(profile)] @@ labels
    /\ pc' = "c_update"
    /\ UNCHANGED <<profiles, transitions, dbUp, clock, req, profile, current,
                   detected, cls, result, batch, log,
                   examples>>

\* prepare_profile_w_labels, update_profile_labels
UpdateLabels ==
    /\ pc = "c_update"
    /\ LET profile_labels ==
              prepare_profile_w_labels(cls.result, labels.is_repeat_founder,
                                       labels.role_at_company,
                                       profile.linkedin_url,
                                       labels.is_senior_operator)
       IN  profiles' =
              IF dbUp
              THEN ApplyPatch(profiles,
                              LabelTargets(profiles, profile.linkedin_url, req.table),
                              LabelPatch(profile_labels))
              ELSE profiles
    /\ Return("completed")
    /\ dbUp' = TRUE
    /\ UNCHANGED <<transitions, clock,
        examples>>

(* ---- company refresh batch: profile_refresh.main ---- *)

\* main(): the operator names the table and the company to update
StartBatch(company, table) ==
    /\ pc = "idle"
    /\ clock < MaxOps
    /\ clock' = clock + 1
    /\ batch' = [company |-> company, table |-> table, urls |-> << >>,
                 todo |-> << >>, stats |-> StatsInit]
    /\ pc' = "b_list"
    /\ log' = "none"
    /\ UNCHANGED <<profiles, transitions, dbUp, req, profile, current,
                   detected, cls, labels, result,
                   examples>>

\* main(): get_company_profiles for the company, stats zeroed; urls is the
\* list the loop iterates over, todo the part of it still to come
ListProfiles ==
    /\ pc = "b_list"
    /\ LET urls == get_company_profiles(profiles, dbUp, batch.company,
                                        batch.table)
       IN  batch' = [batch EXCEPT !.urls = urls, !.todo = urls]
    /\ pc' = "b_loop"
    /\ dbUp' = TRUE
    /\ UNCHANGED <<profiles, transitions, clock, req, profile, current,
                   detected, cls, labels, result, log,
                   examples>>

\* for profile in profiles: refresh_single_profile(profile, company, table)
BatchNext ==
    /\ pc = "b_loop"
    /\ batch.todo # << >>
    /\ req' = [url |-> Head(batch.todo), company |-> batch.company,
               table |-> batch.table]
    /\ pc' = "r_get"
    /\ profile' = Unset
    /\ current' = Unset
    /\ detected' = Unset
    /\ cls' = ClsIdle
    /\ result' = Unset
    /\ UNCHANGED <<profiles, transitions, dbUp, clock, labels, batch, log,
        examples>>

\* "Company refresh complete"
BatchDone ==
    /\ pc = "b_loop"
    /\ batch.todo = << >>
    /\ Return("batch_done")
    /\ UNCHANGED <<profiles, transitions, dbUp, clock,
        examples>>

(* ---- refresh_single_profile ---- *)

\* Step 1: get_current_profile
GetCurrent ==
    /\ pc = "r_get"
    /\ LET row == get_current_profile(profiles, dbUp, req.url, req.table,
                                      req.company) IN
       IF "error" \in DOMAIN row
       THEN /\ result' = [success |-> FALSE, error |-> row.error]
            /\ pc' = "b_handle"
            /\ UNCHANGED current
       ELSE /\ current' = row
            /\ pc' = "r_fetch"
            /\ UNCHANGED result
    /\ dbUp' = TRUE
    /\ UNCHANGED <<profiles, transitions, clock, req, profile, detected,
                   cls, labels, batch, log,
                   examples>>

\* Step 2: fetch_fresh_profile_data answers with a profile
FetchOk ==
    /\ pc = "r_fetch"
    /\ \E body \in Bodies : profile' = FreshProfile(body, req.url)
    /\ pc' = "r_diff"
    /\ UNCHANGED <<profiles, transitions, dbUp, clock, req, current, detected,
                   cls, labels, result, batch, log,
                   examples>>

\* What can go wrong in fetch_fresh_profile_data: a response whose status is
\* not 200, aiohttp.ClientError, or any other exception
FetchFailures ==
    {[kind |-> "status", status |-> 429],
     [kind |-> "status", status |-> 500],
     [kind |-> "ClientError", status |-> 0],
     [kind |-> "Exception", status |-> 0]}

\* Variant that departs from the source: a rate limit is reported as any other status
fetch_error_no_rate_limit(failure) ==
    IF failure.kind = "status"
    THEN [error |-> "api_error", message |-> "Request failed",
          status_code |-> failure.status]
    ELSE IF failure.kind = "ClientError"
    THEN [error |-> "network_error", message |-> failure.kind]
    ELSE [error |-> "unexpected_error", message |-> failure.kind]

\* The error dict fetch_fresh_profile_data returns
fetch_error(failure) ==
    IF failure.kind = "status" /\ failure.status = 429
    THEN [error |-> "rate_limit_exceeded", message |-> "API rate limit reached",
          status_code |-> failure.status]
    ELSE IF failure.kind = "status"
    THEN [error |-> "api_error", message |-> "Request failed",
          status_code |-> failure.status]
    ELSE IF failure.kind = "ClientError"
    THEN [error |-> "network_error", message |-> failure.kind]
    ELSE [error |-> "unexpected_error", message |-> failure.kind]

\* ... or with an error dict: return {"success": False, "error": ...}
FetchFails ==
    /\ pc = "r_fetch"
    /\ \E failure \in FetchFailures :
          /\ profile' = fetch_error(failure)
          /\ result' = [success |-> FALSE, error |-> fetch_error(failure).error]
    /\ pc' = "b_handle"
    /\ UNCHANGED <<profiles, transitions, dbUp, clock, req, current,
                   detected, cls, labels, batch, log,
                   examples>>

\* Variant that departs from the source: updates are prepared for every diff
needs_update_always(detected_changes) == TRUE

\* if detected_changes["has_changes"]
needs_update(detected_changes) == detected_changes.has_changes

\* Step 3: compare_profile_changes; Step 4 up to the call of the gateway
Compare ==
    /\ pc = "r_diff"
    /\ detected' = compare_profile_changes(current, profile)
    /\ IF needs_update(detected')
       THEN /\ cls' = ClsCall(auto_approve_of(detected'),
                              Get(current, "profile_status", None), "r_update")
            /\ pc' = "cls_ai"
       ELSE /\ pc' = "r_nochange"
            /\ UNCHANGED cls
    /\ UNCHANGED <<profiles, transitions, dbUp, clock, req, profile, current,
                   labels, result, batch, log,
                   examples>>

\* prepare_profile_updates after the gateway returned; Step 5:
\* update_profile_in_db; the result of the updated branch
ApplyUpdate ==
    /\ pc = "r_update"
    /\ LET updates == prepared_updates(current, profile, cls.result, clock)
           changes == prepared_changes(current, detected, cls.result)
           ok == update_success(profiles, dbUp, req.url, req.company, req.table)
       IN  /\ profiles' = updated_rows(profiles, dbUp, req.url, updates,
                                       req.company, req.table)
           /\ detected' = changes
           /\ result' = [success |-> ok,
                         changes |-> changes,
                         status |-> IF ok THEN "updated" ELSE "failed",
                         profile_id |-> Get(current, "id", None),
                         old_exp |-> Get(current, "experience", << >>),
                         new_exp |-> Get(profile, "experience", << >>),
                         full_name |-> Get(profile, "full_name", None)]
    /\ pc' = "b_handle"
    /\ dbUp' = TRUE
    /\ UNCHANGED <<transitions, clock, req, profile, current, cls,
                   labels, batch, log,
                   examples>>

\* Variant that departs from the source: the result status is written as the refresh status
no_change_updates_wrong_status(now) ==
    [refresh_metadata |->
        [last_attempted_refresh_timestamp |-> now, refresh_status |-> "no_changes"]]

\* The updates of the no-change branch: the refresh metadata alone
no_change_updates(now) == [refresh_metadata |-> refresh_metadata(now)]

\* ... and the dict the no-change branch returns
no_change_result(updates, current_profile) ==
    [success |-> TRUE,
     changes |-> updates.refresh_metadata,
     status |-> "no_changes",
     profile_id |-> Get(current_profile, "id", None)]

\* The no-change branch of refresh_single_profile
NoChange ==
    /\ pc = "r_nochange"
    /\ LET updates == no_change_updates(clock) IN
       /\ profiles' = updated_rows(profiles, dbUp, req.url, updates,
                                   req.company, req.table)
       /\ result' = no_change_result(updates, current)
    /\ pc' = "b_handle"
    /\ dbUp' = TRUE
    /\ UNCHANGED <<transitions, clock, req, profile, current, detected,
                   cls, labels, batch, log,
                   examples>>

(* ---- main(): what the batch does with the result ---- *)

\* Variant that departs from the source: a failed refresh ends the loop
after_result_stop_on_failure(todo, res) ==
    IF res.success THEN Tail(todo) ELSE << >>

\* for profile in profiles: whatever the result, the loop goes on with the
\* next url
after_result(todo, res) == Tail(todo)

HandleResult ==
    /\ pc = "b_handle"
    /\ LET insert == has_status_change(result)
           row == status_update(result, req.url)
           inserted == insert /\ dbUp
       IN  /\ transitions' = IF inserted THEN Append(transitions, row)
                             ELSE transitions
           /\ batch' = [batch EXCEPT
                 !.todo = after_result(@, result),
                 !.stats = [@ EXCEPT
                     !.processed = @ + 1,
                     !.updated = IF result.success THEN @ + 1 ELSE @,
                     !.status_changes =
                         IF inserted
                         THEN Append(@, [url |-> req.url, old |-> row.old_status,
                                         new |-> row.new_status])
                         ELSE @]]
    /\ pc' = "b_loop"
    /\ dbUp' = TRUE
    /\ UNCHANGED <<profiles, clock, req, profile, current, detected,
                   cls, labels, result, log,
                   examples>>

-----------------------------------------------------------------------------

\* Create calls and company batches in any order. Here the human answers 'n'
\* to the two save prompts of the gateway: saving writes the examples file
\* alone, which the batch specifications below cover (HumanVerifySaves).
Next ==
    \/ StoreFails
    \/ \E typed \in TypedURLs, company \in Companies, table \in InputTables :
          StartCreate(typed, company, table)
    \/ CheckExisting
    \/ ScrapeOk
    \/ ScrapeFails
    \/ InsertProfile
    \/ GetProfileStatus
    \/ HumanVerify
    \/ HumanVerifyRaises
    \/ ChooseCompany
    \/ ComputeLabels
    \/ UpdateLabels
    \/ \E company \in Companies, table \in InputTables :
          StartBatch(company, table)
    \/ ListProfiles
    \/ BatchNext
    \/ BatchDone
    \/ GetCurrent
    \/ FetchOk
    \/ FetchFails
    \/ Compare
    \/ ApplyUpdate
    \/ NoChange
    \/ HandleResult

Spec == Init /\ [][Next]_vars

-----------------------------------------------------------------------------
(* Properties *)

\* The thread of control takes a step (the other steps are the environment's)
ThreadStep == pc' # pc

InCreate ==
    \/ pc \in {"c_check", "c_scrape", "c_insert", "c_status", "c_labels", "c_update"}
    \/ pc \in {"cls_ai", "cls_human"} /\ cls.ret = "c_status"

FirstOrUnset(s) == IF s # << >> THEN s[1] ELSE Unset

\* C1: the gateway returns the candidate without asking the human exactly
\* when auto_approve was passed and the candidate equals old_status; in
\* every other case the human step ran before the result was returned.
C1_AutoApprovalPolicy ==
    cls.done =>
        /\ ~cls.asked <=> (cls.auto_approve /\ cls.ai.status = cls.old_status)
        /\ ~cls.asked =>
              cls.result = Classification(cls.ai.status, cls.ai.confidence_label)

C1_Witness ==
    /\ cls.done
    /\ ~cls.asked
    /\ cls.auto_approve
    /\ cls.ai.status = cls.old_status

\* C2: in the refresh path a profile_status different from the stored one is
\* written only after the human step accepted or supplied that value.
C2_StatusWriteOnlyAfterHuman ==
    [][pc = "r_update" =>
          \A i \in DOMAIN profiles :
             profiles'[i].profile_status # profiles[i].profile_status =>
                /\ cls.asked
                /\ cls.final_status = profiles'[i].profile_status]_vars

\* C3: when the classification call fails or its response does not parse,
\* the gateway returns status null with confidence low.
C3_FailureReturnsNull ==
    (cls.done /\ cls.ai_failed) =>
        /\ cls.result.status = None
        /\ cls.result.confidence_label = "low"

\* C4: when the gateway returns a null status during a refresh, neither
\* profile_status nor status_confidence_label of a stored profile changes.
C4_NullStatusSkipsWrite ==
    [][(pc = "r_update" /\ cls.result.status = None) =>
          \A i \in DOMAIN profiles :
             /\ profiles'[i].profile_status = profiles[i].profile_status
             /\ profiles'[i].status_confidence_label =
                   profiles[i].status_confidence_label]_vars

\* C5: in the create path, when the gateway returns a null status no label
\* write is performed.
C5_NullStatusNoLabelWrite ==
    [][(InCreate /\ cls.done /\ cls.result.status = None) =>
          profiles' = profiles]_vars

\* The refresh resolved a status different from the stored one
ResolvedDiffers ==
    /\ cls.done
    /\ cls.ret = "r_update"
    /\ cls.result.status # current.profile_status

\* The StatusTransition row the claim describes is the last of the table
ExpectedTransitionAppended ==
    /\ Len(transitions') = Len(transitions) + 1
    /\ SubSeq(transitions', 1, Len(transitions)) = transitions
    /\ LET row == transitions'[Len(transitions')] IN
          /\ row.old_status = current.profile_status
          /\ row.new_status = cls.result.status
          /\ row.status_confidence = cls.result.confidence_label
          /\ row.prev_role = FirstOrUnset(current.experience)
          /\ row.curr_role = FirstOrUnset(profile.experience)

C7_OtherCompanyRecordUntouched ==
    [][InCreate =>
          \A i \in DOMAIN profiles :
             (/\ profiles[i].table = req.table
              /\ profiles[i].linkedin_url = req.url
              /\ profiles[i].company # req.company) =>
                profiles'[i] = profiles[i]]_vars

\* C8: the store holds at most one profile record per
\* (linkedin_url, target_company, table).
C8_UniqueKey ==
    \A i, j \in DOMAIN profiles :
       (/\ profiles[i].linkedin_url = profiles[j].linkedin_url
        /\ profiles[i].company = profiles[j].company
        /\ profiles[i].table = profiles[j].table) => i = j

\* C9: when a record exists for (linkedin_url, target_company, table), the
\* create pipeline goes from the existence check straight to its return: no
\* scrape, no classification, no label computation and no store write.
C9_ExistingIsNoOp ==
    [][(/\ pc = "c_check"
        /\ ThreadStep
        /\ Matching(profiles, req.table, req.url, req.company) # {}) =>
          /\ pc' = "idle"
          /\ profiles' = profiles
          /\ transitions' = transitions]_vars

C9_Witness ==
    /\ pc = "idle"
    /\ log = "exists"
    /\ profiles # << >>

RefreshMetadataFields == {"last_attempted_refresh_timestamp", "refresh_status"}

\* C10: when a refresh detects no changes, the only fields written are
\* last_attempted_refresh_timestamp and refresh_status = 'success', the
\* result status is 'no_changes', and no StatusTransition row is appended.
C10_NoChangeWritesOnlyMetadata ==
    [][/\ (pc = "r_nochange" /\ ThreadStep) =>
             /\ Len(profiles') = Len(profiles)
             /\ \A i \in DOMAIN profiles :
                   /\ \A f \in DOMAIN profiles[i] \ RefreshMetadataFields :
                         profiles'[i][f] = profiles[i][f]
                   /\ profiles'[i] # profiles[i] =>
                         /\ profiles'[i].refresh_status = "success"
                         /\ profiles'[i].last_attempted_refresh_timestamp = clock
             /\ result'.status = "no_changes"
       /\ (pc = "b_handle" /\ ThreadStep
              /\ Get(result, "status", "") = "no_changes") =>
             transitions' = transitions]_vars

C10_Witness ==
    /\ pc = "b_loop"
    /\ Get(result, "status", "") = "no_changes"
    /\ \E i \in DOMAIN profiles :
          /\ profiles[i].refresh_status = "success"
          /\ profiles[i].last_attempted_refresh_timestamp = clock
    /\ transitions = << >>

-----------------------------------------------------------------------------
(* Refresh: what a changed profile writes *)

\* The descriptive and structured fields of a stored profile
DescriptiveAndStructured ==
    {"first_name", "last_name", "full_name", "headline", "job_title",
     "follower_count", "connection_count", "location", "experience",
     "education", "previous_companies"}

\* The value of such a field in the fresh scrape; previous_companies is the
\* list of companies of the fresh experience
FreshValue(fresh, f) ==
    IF f = "previous_companies" THEN CompanyList(fresh.experience) ELSE fresh[f]

\* The stored rows of the key being refreshed
KeyRows(rows) == Matching(rows, req.table, req.url, req.company)

\* C11: after a successful refresh that detected changes, every descriptive
\* and structured field of the stored profile equals its value in the fresh
\* scrape, whether or not the field was among the detected changes.
C11_StoredEqualsFreshScrape ==
    [][(pc = "r_update" /\ ThreadStep /\ result'.success) =>
          \A i \in KeyRows(profiles') :
             \A f \in DescriptiveAndStructured :
                profiles'[i][f] = FreshValue(profile, f)]_vars

\* The refresh of a profile whose changes were detected is under way
InRefreshWithChanges ==
    \/ pc \in {"cls_ai", "cls_human", "r_update"} /\ cls.ret = "r_update"
    \/ pc = "b_handle" /\ Get(result, "status", "") \in {"updated", "failed"}

\* C12: a refresh that detected changes writes the store in one step only,
\* and that step writes the field updates together with the refresh
\* metadata to each row it reaches: no row ever holds one without the other.
C12_SingleAtomicUpdate ==
    [][InRefreshWithChanges =>
          /\ profiles' # profiles => pc = "r_update"
          /\ (pc = "r_update" /\ ThreadStep) =>
                /\ Len(profiles') = Len(profiles)
                /\ \A i \in DOMAIN profiles :
                      IF dbUp /\ i \in KeyRows(profiles)
                      THEN /\ \A f \in DOMAIN fields_to_update(profile) :
                                 profiles'[i][f] = fields_to_update(profile)[f]
                           /\ profiles'[i].last_attempted_refresh_timestamp = clock
                           /\ profiles'[i].refresh_status = "success"
                      ELSE profiles'[i] = profiles[i]]_vars

C12_Witness ==
    /\ pc = "b_handle"
    /\ Get(result, "status", "") = "updated"
    /\ \E i \in KeyRows(profiles) :
          /\ profiles[i].experience = profile.experience
          /\ profiles[i].experience # current.experience
          /\ profiles[i].last_attempted_refresh_timestamp = clock
          /\ profiles[i].refresh_status = "success"

\* C13: when changes exist, the gateway is called with auto_approve true
\* exactly when every changed field is one of follower_count,
\* connection_count, recent_experience_duration.
C13_AutoApproveIffOnlyNonCritical ==
    (pc \in {"cls_ai", "cls_human", "r_update"} /\ cls.ret = "r_update") =>
        /\ detected.has_changes
        /\ cls.auto_approve <=>
              Range(detected.changed_fields) \subseteq non_critical_fields

C13_Witness ==
    /\ pc = "cls_ai"
    /\ cls.ret = "r_update"
    /\ cls.auto_approve
    /\ detected.changed_fields = <<"recent_experience_duration">>

\* C14: after a refresh that succeeded with status 'updated', the refresh of
\* the same key against the same fresh scrape that follows it detects no
\* changes, writes no field other than the refresh metadata and returns a
\* 'no_changes' result for which no StatusTransition is inserted.
C14_RefreshIsIdempotent ==
    [][(pc = "r_update" /\ ThreadStep /\ result'.status = "updated") =>
          LET again == get_current_profile(profiles', TRUE, req.url,
                                           req.table, req.company)
              diff == compare_profile_changes(again, profile)
              updates == no_change_updates(clock + 1)
              rows == updated_rows(profiles', TRUE, req.url, updates,
                                   req.company, req.table)
              res == no_change_result(updates, again)
          IN  /\ ~diff.has_changes
              /\ diff.changed_fields = << >>
              /\ \A i \in DOMAIN rows :
                    \A f \in DOMAIN rows[i] \ RefreshMetadataFields :
                       rows[i][f] = profiles'[i][f]
              /\ res.status = "no_changes"
              /\ ~has_status_change(res)]_vars

C14_Witness ==
    /\ pc = "b_handle"
    /\ Get(result, "status", "") = "updated"
    /\ "previous_companies" \in Range(detected.changed_fields)
    /\ ~compare_profile_changes(
            get_current_profile(profiles, TRUE, req.url, req.table, req.company),
            profile).has_changes

-----------------------------------------------------------------------------
(* The change detector on the profiles the pipelines hold *)

\* The profile dicts the program holds: the stored rows, and the scraped or
\* fresh profile of the running pipeline
HeldProfiles ==
    Range(profiles) \cup (IF DOMAIN profile # {} THEN {profile} ELSE {})

\* C15: for any profile P, compare_profile_changes(P, P) returns
\* has_changes = False with an empty changed_fields.
C15_SelfDiffIsEmpty ==
    \A P \in HeldProfiles :
       LET d == compare_profile_changes(P, P) IN
       ~d.has_changes /\ d.changed_fields = << >>

\* The stored and the fresh profile of a refresh are both at hand
BothProfilesHeld ==
    pc \in {"r_diff", "r_update", "r_nochange"}

\* C16: compare_profile_changes(A, B) and compare_profile_changes(B, A) have
\* the same set of changed fields, and each changed field's {old, new} pair
\* of one is the swapped pair of the other.
C16_DiffIsSymmetric ==
    BothProfilesHeld =>
       LET ab == compare_profile_changes(current, profile)
           ba == compare_profile_changes(profile, current)
       IN  /\ Range(ab.changed_fields) = Range(ba.changed_fields)
           /\ \A f \in Range(ab.changed_fields) \cap Range(ba.changed_fields) :
                 /\ ab.changes[f].old = ba.changes[f].new
                 /\ ab.changes[f].new = ba.changes[f].old

\* The stored and the fresh profile differ in the duration of the first
\* experience entry and in nothing else
DiffersOnlyInDuration(stored, fresh) ==
    /\ \A f \in Range(simple_fields) \cup {"full_name", "education"} :
          stored[f] = fresh[f]
    /\ Len(stored.experience) = Len(fresh.experience)
    /\ stored.experience # << >>
    /\ \A i \in DOMAIN stored.experience :
          \A g \in DOMAIN stored.experience[i] :
             \/ i = 1 /\ g = "duration"
             \/ stored.experience[i][g] = fresh.experience[i][g]
    /\ stored.experience[1].duration # fresh.experience[1].duration
    /\ Range(stored.previous_companies) = CompanySet(fresh.experience)

\* C17: for a stored profile and a fresh scrape that differ only in the
\* duration of the first experience entry, the comparison reports
\* has_changes with changed_fields exactly [recent_experience_duration], no
\* changed field is critical, and the gateway is called with auto_approve
\* true.
C17_DurationOnlyIsAutoApproved ==
    [][(pc = "r_diff" /\ ThreadStep /\ DiffersOnlyInDuration(current, profile)) =>
          /\ detected'.has_changes
          /\ detected'.changed_fields = <<"recent_experience_duration">>
          /\ Range(detected'.changed_fields) \ non_critical_fields = {}
          /\ pc' = "cls_ai"
          /\ cls'.ret = "r_update"
          /\ cls'.auto_approve]_vars

C17_Witness ==
    /\ pc = "cls_ai"
    /\ cls.ret = "r_update"
    /\ DiffersOnlyInDuration(current, profile)
    /\ cls.auto_approve
    /\ current.experience[1].duration = "1 yr"
    /\ profile.experience[1].duration = "1 yr 1 mo"

-----------------------------------------------------------------------------
(* The label functions of insert_profile.py, called on scraped profiles *)

\* Experience lists a scrape can report, most recent first
LabelExperiences ==
    {<< >>,
     <<Exp("Acme", "Founder", "1 yr", "2023 - Present")>>,
     <<Exp("Stealth", "Founder", "1 mo", "2024 - Present"),
       Exp("Acme", "Co-Founder", "2 yrs", "2021 - 2023")>>,
     <<Exp("Globex", "CEO", "3 yrs", "2021 - Present"),
       Exp("Acme", "Engineer", "2 yrs", "2019 - 2021")>>,
     <<Exp("Stealth", "Chief Executive Officer", "1 mo", "2024 - Present"),
       Exp("Acme", "Cofounder & CTO", "2 yrs", "2022 - 2024"),
       Exp("Acme", "Engineer", "1 yr", "2021 - 2022")>>,
     <<Exp("Acme", "Engineer", "1 yr", "2023 - Present"),
       Exp("Globex", "VP Sales", "4 yrs", "2019 - 2023")>>,
     <<Exp("ACME", "Co Founder", "1 yr", "2023 - Present")>>,
     <<Exp("Globex", "Engineer", "1 yr", "2023 - Present"),
       Exp("Stealth", "Founder", "2 yrs", "2021 - 2023"),
       Exp("Globex", "Engineer", "2 yrs", "2019 - 2021")>>}

LabelProfiles ==
    {ScrapedProfile([BodyA EXCEPT !.experience = e], <<"a", "/">>) :
        e \in LabelExperiences}

\* The company extract_company_role is asked about
SearchCompanies == {"Acme", "acme", "Globex"}

\* What the human types when asked for the role statement
TypedRoles == {"advisor", "founder at acme"}

\* What senior_operator_labelling_call returns: the answer's text, or None
LabellingResponses == {"true", "TRUE", "false", "FALSE", "maybe", None}

\* What the human types at "Please manually input (true/false)"
ManualLabels == {"true", "false"}

InitLabels ==
    /\ profiles = << >>
    /\ transitions = << >>
    /\ dbUp = TRUE
    /\ clock = 0
    /\ pc = "l_call"
    /\ req = Unset
    /\ profile \in LabelProfiles
    /\ current = Unset
    /\ detected = Unset
    /\ cls = ClsIdle
    /\ labels = Unset
    /\ result = Unset
    /\ batch = Unset
    /\ log = "none"
    /\ examples = ExamplesInit

CallCheckRepeatFounder ==
    /\ pc = "l_call"
    /\ labels' = [fn |-> "check_repeat_founder",
                  ret |-> check_repeat_founder(profile)]
    /\ pc' = "l_done"
    /\ UNCHANGED <<profiles, transitions, dbUp, clock, req, profile, current,
                   detected, cls, result, batch, log,
                   examples>>

CallExtractCompanyRole ==
    /\ pc = "l_call"
    /\ \E search_company \in SearchCompanies, typed \in TypedRoles :
          labels' = [fn |-> "extract_company_role",
                     search_company |-> search_company,
                     typed |-> typed,
                     ret |-> extract_company_role(profile, search_company, typed)]
    /\ pc' = "l_done"
    /\ UNCHANGED <<profiles, transitions, dbUp, clock, req, profile, current,
                   detected, cls, result, batch, log,
                   examples>>

CallCheckSeniorOperator ==
    /\ pc = "l_call"
    /\ \E ai_response \in LabellingResponses, manual \in ManualLabels :
          labels' = [fn |-> "check_senior_operator",
                     ai_response |-> ai_response,
                     manual |-> manual,
                     ret |-> check_senior_operator(profile, ai_response, manual)]
    /\ pc' = "l_done"
    /\ UNCHANGED <<profiles, transitions, dbUp, clock, req, profile, current,
                   detected, cls, result, batch, log,
                   examples>>

NextLabels ==
    \/ CallCheckRepeatFounder
    \/ CallExtractCompanyRole
    \/ CallCheckSeniorOperator

SpecLabels == InitLabels /\ [][NextLabels]_vars

Returned(fn) == pc = "l_done" /\ labels.fn = fn

\* The titles of the model that contain a founder keyword as a substring,
\* whatever the case of their letters
TitlesNamingAFounder ==
    {"Founder", "Co-Founder", "Co Founder", "CEO", "Chief Executive Officer",
     "Cofounder & CTO"}

\* C18: check_repeat_founder is True exactly when more than one experience
\* entry has a title containing a founder keyword; zero or one such entry,
\* or no experience at all, gives False.
C18_RepeatFounderNeedsTwoRoles ==
    Returned("check_repeat_founder") =>
        LET founder_roles == {i \in DOMAIN profile.experience :
                                 profile.experience[i].title \in TitlesNamingAFounder}
        IN  /\ labels.ret \in {PyTrue, PyFalse}
            /\ labels.ret = PyTrue <=> Cardinality(founder_roles) > 1

C18_Witness ==
    /\ Returned("check_repeat_founder")
    /\ labels.ret = PyTrue
    /\ Len(profile.experience) = 3
    /\ profile.experience[1].title = "Chief Executive Officer"
    /\ profile.experience[2].title = "Cofounder & CTO"

\* C19: extract_company_role returns '<title> at <company> for <duration>'
\* exactly when one experience entry is at the search company,
\* case-insensitively; with no such entry (an empty experience list
\* included) or several, it returns what the human typed.
C19_RoleFromHumanUnlessOneMatch ==
    Returned("extract_company_role") =>
        LET rel == RelevantExperiences(profile, labels.search_company) IN
        IF Cardinality(rel) = 1
        THEN \E i \in rel :
                labels.ret = <<profile.experience[i].title, " at ",
                               labels.search_company, " for ",
                               profile.experience[i].duration>>
        ELSE labels.ret = <<labels.typed>>

\* C20: check_senior_operator returns a boolean: True exactly when the
\* response is 'true' in any case, False for any other response, and when
\* there is no response the boolean of the human's true/false answer.
C20_SeniorOperatorIsBoolean ==
    (Returned("check_senior_operator") /\ profile.experience # << >>) =>
        /\ labels.ret \in {PyTrue, PyFalse}
        /\ labels.ai_response # None =>
              (labels.ret = PyTrue <=> labels.ai_response \in {"true", "TRUE"})
        /\ labels.ai_response = None =>
              (labels.ret = PyTrue <=> labels.manual = "true")

-----------------------------------------------------------------------------
(* Create path: the company the role is extracted against *)

\* C21: in the create path the role is extracted against target_company
\* only if target_company is among the scraped previous_companies;
\* otherwise the human is asked for a company of interest first and the
\* role is extracted against the human's choice.
C21_RoleAgainstListedOrChosenCompany ==
    (InCreate /\ pc \in {"c_labels", "c_update"}) =>
        /\ labels.asked_company <=>
              req.company \notin Range(profile.previous_companies)
        /\ ~labels.asked_company => labels.company_of_interest = req.company
        /\ labels.asked_company => labels.company_of_interest \in HumanCompanies
        /\ pc = "c_update" =>
              \E typed \in HumanRoles :
                 labels.role_at_company =
                    extract_company_role(profile, labels.company_of_interest, typed)

C21_Witness ==
    /\ pc = "c_update"
    /\ req.company = "Globex"
    /\ labels.asked_company
    /\ labels.company_of_interest = "acme"
    /\ labels.role_at_company = <<"Founder", " at ", "acme", " for ", "1 yr">>

-----------------------------------------------------------------------------
(* The company refresh batch on a store that holds two labelled profiles *)

\* A row as the create pipeline leaves it: inserted, then labelled
SeedRow(url, company, id) ==
    LET p == ScrapedProfile(BodyA, url)
        profile_labels ==
            prepare_profile_w_labels(
                Classification("stealth", "high"),
                check_repeat_founder(p),
                extract_company_role(p, company, "advisor"),
                url,
                check_senior_operator(p, "true", "true"))
    IN  ApplyPatch(<<InsertData(p, company, FounderTable, id)>>, {1},
                   LabelPatch(profile_labels))[1]

\* The operator has just named the table and the company to update; it is
\* the last operation of the run
InitBatch ==
    /\ \E company \in Companies :
          profiles = <<SeedRow(<<"a", "/">>, "Acme", 1),
                       SeedRow(<<"b", "/">>, company, 2)>>
    /\ transitions = << >>
    /\ dbUp = TRUE
    /\ clock = MaxOps
    /\ pc = "b_list"
    /\ req = Unset
    /\ profile = Unset
    /\ current = Unset
    /\ detected = Unset
    /\ cls = ClsIdle
    /\ labels = Unset
    /\ result = Unset
    /\ \E company \in Companies, table \in InputTables :
          batch = [company |-> company, table |-> table, urls |-> << >>,
                   todo |-> << >>, stats |-> StatsInit]
    /\ log = "none"
    /\ examples = ExamplesInit

NextBatch ==
    \/ StoreFails
    \/ ListProfiles
    \/ BatchNext
    \/ BatchDone
    \/ GetCurrent
    \/ FetchOk
    \/ FetchFails
    \/ Compare
    \/ GetProfileStatus
    \/ HumanVerify
    \/ HumanVerifySaves
    \/ HumanVerifyRaises
    \/ ApplyUpdate
    \/ NoChange
    \/ HandleResult

\* Every call returns and the human answers every prompt
SpecBatch == InitBatch /\ [][NextBatch]_vars /\ WF_vars(NextBatch)

InBatchLoop ==
    pc \in {"b_loop", "r_get", "r_fetch", "r_diff", "cls_ai", "cls_human",
            "r_update", "r_nochange", "b_handle"}

\* The urls before the one being attempted have been attempted, those after
\* it are still to come
AttemptedInOrder ==
    InBatchLoop =>
        /\ batch.stats.processed <= Len(batch.urls)
        /\ batch.todo = SubSeq(batch.urls, batch.stats.processed + 1,
                               Len(batch.urls))
        /\ pc # "b_loop" => req.url = batch.urls[batch.stats.processed + 1]

\* C22: a failure while processing one profile never stops the batch: every
\* profile returned for the company is attempted exactly once, in order,
\* and the batch loop terminates.
C22_BatchAttemptsAllAndTerminates ==
    /\ []AttemptedInOrder
    /\ [][(pc = "b_loop" /\ pc' = "idle") =>
             batch.stats.processed = Len(batch.urls)]_vars
    /\ (pc = "b_list") ~> (pc = "idle" /\ log = "batch_done")

C22_Witness ==
    /\ pc = "b_loop"
    /\ Len(batch.urls) = 2
    /\ batch.todo = << >>
    /\ batch.stats.processed = 2
    /\ batch.stats.updated = 0

\* C23: at the end of a refresh batch processed is the number of profiles
\* attempted, updated the number whose refresh succeeded and failed the
\* number whose refresh did not, hence processed = updated + failed.
C23_CountersAddUp ==
    (pc = "b_loop" /\ batch.todo = << >>) =>
        /\ batch.stats.processed = Len(batch.urls)
        /\ batch.stats.processed = batch.stats.updated + batch.stats.failed

-----------------------------------------------------------------------------
(* User interrupt *)

\* KeyboardInterrupt is not an Exception: no try/except of the pipelines
\* catches it, so the running pipeline is abandoned where it stands.
\* insert_profile.main catches it and logs how many profiles were processed;
\* profile_refresh.main has no handler for it
Interrupt ==
    /\ pc # "idle"
    /\ Return(IF InCreate THEN "terminated_by_user" ELSE "interrupted")
    /\ dbUp' = TRUE
    /\ UNCHANGED <<profiles, transitions, clock,
        examples>>

NextInterrupt ==
    \/ Next
    \/ Interrupt

SpecInterrupt == Init /\ [][NextInterrupt]_vars

\* The pipeline stands between the two writes of a profile: the bare row is
\* inserted and not yet labelled, or the profile update with a new status
\* is done and its StatusTransition not yet inserted
BetweenTwoWrites ==
    \/ /\ InCreate
       /\ pc \in {"cls_ai", "cls_human", "c_status", "c_labels", "c_update"}
       /\ \E i \in DOMAIN profiles :
             /\ profiles[i].table = req.table
             /\ profiles[i].company = req.company
             /\ profiles[i].linkedin_url = profile.linkedin_url
             /\ profiles[i].is_repeat_founder = None
    \/ /\ pc = "b_handle"
       /\ has_status_change(result)
       /\ result.success

\* C24: a user interrupt takes effect only between profiles: no profile is
\* left with the bare insert done and the label update missing, or with the
\* profile update done and the StatusTransition insert missing, and the
\* batch reports how many profiles completed before the interrupt.
C24_InterruptOnlyBetweenProfiles ==
    [][(pc # "idle" /\ log' \in {"terminated_by_user", "interrupted"}) =>
          /\ ~BetweenTwoWrites
          /\ log' = "terminated_by_user"]_vars

-----------------------------------------------------------------------------
(* streamlit_app/main_functions.py: parse_duration *)

MaxTokens == 3   \* pieces a duration string is made of

Digits == <<"0", "1", "2", "3", "4", "5", "6", "7", "8", "9">>

\* \d
IsDigit(c) == c \in Range(Digits)

\* int() of one digit
DigitValue(c) == (CHOOSE i \in DOMAIN Digits : Digits[i] = c) - 1

\* \s
IsSpace(c) == c = " "

\* The first position from i on that holds no digit: where \d+ stops
RECURSIVE DigitsEnd(_, _)
DigitsEnd(s, i) ==
    IF i <= Len(s) /\ IsDigit(s[i]) THEN DigitsEnd(s, i + 1) ELSE i

\* The first position from i on that holds no whitespace: where \s* stops
RECURSIVE SpaceEnd(_, _)
SpaceEnd(s, i) ==
    IF i <= Len(s) /\ IsSpace(s[i]) THEN SpaceEnd(s, i + 1) ELSE i

\* int(number) of the digits s[i..k-1]
RECURSIVE NumberValue(_, _, _)
NumberValue(s, i, k) ==
    IF k <= i THEN 0
    ELSE NumberValue(s, i, k - 1) * 10 + DigitValue(s[k - 1])

\* (yr|yrs|mo|mos) with re.IGNORECASE at position j: the first alternative
\* that matches is taken, so the unit matched is yr or mo; "" is no match
UnitAt(s, j) ==
    IF j + 1 > Len(s) THEN ""
    ELSE IF LowerChar(s[j]) = "y" /\ LowerChar(s[j + 1]) = "r" THEN "yr"
    ELSE IF LowerChar(s[j]) = "m" /\ LowerChar(s[j + 1]) = "o" THEN "mo"
    ELSE ""

\* pattern.findall(duration_string) from position i on: the (number, unit)
\* pairs of the leftmost non-overlapping matches
RECURSIVE findall(_, _)
findall(s, i) ==
    IF i > Len(s) THEN << >>
    ELSE IF ~IsDigit(s[i]) THEN findall(s, i + 1)
    ELSE LET k == DigitsEnd(s, i)
             j == SpaceEnd(s, k)
             unit == UnitAt(s, j)
         IN  IF unit = "" THEN findall(s, i + 1)
             ELSE <<[number |-> NumberValue(s, i, k), unit |-> unit]>>
                  \o findall(s, j + 2)

\* Variant that departs from the source: years are not converted to months
months_of_unconverted(number, unit) == number

\* What one match adds to total_months
months_of(number, unit) ==
    IF unit = "yr" THEN number * 12
    ELSE IF unit = "mo" THEN number
    ELSE 0

RECURSIVE SumMonths(_)
SumMonths(matches) ==
    IF matches = << >> THEN 0
    ELSE months_of(Head(matches).number, Head(matches).unit)
         + SumMonths(Tail(matches))

parse_duration(duration_string) == SumMonths(findall(duration_string, 1))

\* Pieces of duration text, each with the months its tokens stand for
DurationPieces ==
    {[text |-> <<"2", " ", "y", "r", "s">>,
      months |-> 24],
     [text |-> <<"3", " ", "m", "o", "s">>,
      months |-> 3],
     [text |-> <<"1", "y", "r">>,
      months |-> 12],
     [text |-> <<"1", " ", "Y", "R">>,
      months |-> 12],
     [text |-> <<"2", " ", "M", "O", "S">>,
      months |-> 2],
     [text |-> <<"5", " ", "m", "o">>,
      months |-> 5],
     [text |-> <<"1", "y", "r", "2", "m", "o", "s">>,
      months |-> 14],
     [text |-> <<"a", "b", "c">>,
      months |-> 0],
     [text |-> <<"1", "2">>,
      months |-> 0]}

\* The pieces of a duration string, in order
PieceLists == UNION {[1..n -> DurationPieces] : n \in 0..MaxTokens}

\* The duration string: the pieces joined by one space
RECURSIVE JoinPieces(_)
JoinPieces(ps) ==
    IF ps = << >> THEN << >>
    ELSE IF Len(ps) = 1 THEN ps[1].text
    ELSE ps[1].text \o <<" ">> \o JoinPieces(Tail(ps))

InitDuration ==
    /\ profiles = << >>
    /\ transitions = << >>
    /\ dbUp = TRUE
    /\ clock = 0
    /\ pc = "d_call"
    /\ \E ps \in PieceLists :
          req = [pieces |-> ps, duration_string |-> JoinPieces(ps)]
    /\ profile = Unset
    /\ current = Unset
    /\ detected = Unset
    /\ cls = ClsIdle
    /\ labels = Unset
    /\ result = Unset
    /\ batch = Unset
    /\ log = "none"
    /\ examples = ExamplesInit

CallParseDuration ==
    /\ pc = "d_call"
    /\ result' = [total_months |-> parse_duration(req.duration_string)]
    /\ pc' = "d_done"
    /\ UNCHANGED <<profiles, transitions, dbUp, clock, req, profile, current,
                   detected, cls, labels, batch, log,
                   examples>>

NextDuration == CallParseDuration

SpecDuration == InitDuration /\ [][NextDuration]_vars

RECURSIVE MonthsOfPieces(_)
MonthsOfPieces(ps) ==
    IF ps = << >> THEN 0 ELSE ps[1].months + MonthsOfPieces(Tail(ps))

\* C25: parse_duration returns the sum over all '<number><optional
\* space><unit>' tokens of number*12 for yr/yrs and number for mo/mos,
\* whatever the case of the unit and the order of the tokens; text that
\* matches no token adds nothing and an empty or unmatched string gives 0.
C25_ParseDurationSumsTokens ==
    pc = "d_done" => result.total_months = MonthsOfPieces(req.pieces)

C25_Witness ==
    /\ pc = "d_done"
    /\ req.duration_string =
          <<"2", " ", "y", "r", "s", " ", "3", " ", "m", "o", "s">>
    /\ result.total_months = 27

-----------------------------------------------------------------------------
\* The statuses the classifier prompt and the verification prompt name
ValidStatuses ==
    {"stealth", "building_in_public", "recently_quit", "currently_employed"}

\* C26: every persisted profile_status is one of stealth,
\* building_in_public, recently_quit, currently_employed or null, and every
\* persisted status_confidence_label is high or low (null on a row that was
\* never labelled), whatever the classifier returns or the human types.
C26_PersistedStatusInValidSet ==
    \A i \in 1..Len(profiles) :
        /\ profiles[i].profile_status \in ValidStatuses \cup {None}
        /\ profiles[i].status_confidence_label \in {"high", "low", None}

-----------------------------------------------------------------------------
\* The audit records of before are all still there, unchanged and in place
TransitionsKept ==
    /\ Len(transitions') >= Len(transitions)
    /\ \A i \in 1..Len(transitions) : transitions'[i] = transitions[i]

-----------------------------------------------------------------------------
EndsWithSlash(url) == Len(url) > 0 /\ url[Len(url)] = "/"

\* The URL a pending scrape call was given, in the create pipeline ...
CreateScrapeHasSlash == pc = "c_scrape" => EndsWithSlash(req.url)

\* ... and in refresh_single_profile
RefreshScrapeHasSlash == pc = "r_fetch" => EndsWithSlash(req.url)

ensure_trailing_slash_idempotent ==
    \A typed \in TypedURLs \cup {<< >>} :
        ensure_trailing_slash(ensure_trailing_slash(typed))
            = ensure_trailing_slash(typed)

\* C28: every scrape call, in the create pipeline and in the refresh, is
\* given a URL that ends with a slash, and ensure_trailing_slash applied
\* twice gives what it gives applied once.
C28_ScrapeUrlEndsWithSlash ==
    /\ CreateScrapeHasSlash
    /\ RefreshScrapeHasSlash
    /\ ensure_trailing_slash_idempotent

-----------------------------------------------------------------------------
\* The outcome of a run of refresh_single_profile, read off the dict it
\* returns: the early returns carry success = False and no status
RefreshOutcome(res) ==
    IF "status" \in DOMAIN res THEN res.status
    ELSE IF res.success THEN "none" ELSE "failed"

InClassifierOfRefresh == pc \in {"cls_ai", "cls_human"} /\ cls.ret = "r_update"

\* One step of refresh_single_profile, by the place it starts from
RefreshStepInOrder ==
    /\ pc = "r_get" =>
          /\ pc' \in {"r_fetch", "b_handle"}
          /\ profiles' = profiles
          /\ pc' = "b_handle" => RefreshOutcome(result') = "failed"
    /\ pc = "r_fetch" =>
          /\ pc' \in {"r_diff", "b_handle"}
          /\ profiles' = profiles
          /\ pc' = "b_handle" => RefreshOutcome(result') = "failed"
    /\ pc = "r_diff" =>
          /\ profiles' = profiles
          /\ IF detected'.has_changes
             THEN pc' = "cls_ai" /\ cls'.ret = "r_update"
             ELSE pc' = "r_nochange" /\ cls' = cls
    /\ InClassifierOfRefresh =>
          /\ detected.has_changes
          /\ pc' \in {"cls_human", "r_update"}
          /\ profiles' = profiles
    /\ pc = "r_update" =>
          /\ detected.has_changes
          /\ pc' = "b_handle"
          /\ RefreshOutcome(result') \in {"updated", "failed"}
    /\ pc = "r_nochange" =>
          /\ ~detected.has_changes
          /\ pc' = "b_handle"
          /\ cls' = cls
          /\ RefreshOutcome(result') = "no_changes"

\* C29: a run of refresh_single_profile goes store lookup, scrape, diff,
\* classification only when the diff has changes, store update: the store
\* is not written before the scrape returned a profile, the classifier is
\* not invoked on the no-change branch, and the run ends as failed,
\* no_changes or updated.
C29_RefreshStepsInOrder ==
    /\ [][pc' # pc => RefreshStepInOrder]_vars
    /\ [](pc = "b_handle" =>
             RefreshOutcome(result) \in {"failed", "no_changes", "updated"})

C29_Witness ==
    /\ pc = "b_handle"
    /\ RefreshOutcome(result) = "no_changes"
    /\ ~detected.has_changes
    /\ batch.stats.updated = 1

-----------------------------------------------------------------------------
(* refresh_single_profile called with any key, on a store that holds two
   labelled profiles *)

\* The linkedin_url argument: two stored urls and one that is not stored
RefreshURLs == {<<"a", "/">>, <<"b", "/">>, <<"c", "/">>}

\* The table_name argument: the two tables and a name that is neither
RefreshTables == Tables \cup {"Other-Table"}

InitRefresh ==
    /\ \E company \in Companies :
          profiles = <<SeedRow(<<"a", "/">>, "Acme", 1),
                       SeedRow(<<"b", "/">>, company, 2)>>
    /\ transitions = << >>
    /\ dbUp = TRUE
    /\ clock = MaxOps
    /\ pc = "r_get"
    /\ \E url \in RefreshURLs, company \in Companies, table \in RefreshTables :
          req = [url |-> url, company |-> company, table |-> table]
    /\ profile = Unset
    /\ current = Unset
    /\ detected = Unset
    /\ cls = ClsIdle
    /\ labels = Unset
    /\ result = Unset
    /\ batch = Unset
    /\ log = "none"
    /\ examples = ExamplesInit

\* The steps of refresh_single_profile; at b_handle it has returned
NextRefresh ==
    \/ StoreFails
    \/ GetCurrent
    \/ FetchOk
    \/ FetchFails
    \/ Compare
    \/ GetProfileStatus
    \/ HumanVerify
    \/ HumanVerifySaves
    \/ HumanVerifyRaises
    \/ ApplyUpdate
    \/ NoChange

SpecRefresh == InitRefresh /\ [][NextRefresh]_vars

\* No stored record has the key of the request, or the table is not one of
\* the two tables
NoRecordForKey ==
    \/ req.table \notin Tables
    \/ Matching(profiles, req.table, req.url, req.company) = {}

AfterLookup ==
    pc \in {"r_fetch", "r_diff", "cls_ai", "cls_human", "r_update", "r_nochange"}

\* C30: when no record exists for (linkedin_url, search_company, table) or
\* the table name is not one of the two tables, refresh_single_profile
\* returns success = False with an error, without a scrape call and without
\* a store write.
C30_NoRecordFailsWithoutScrapeOrWrite ==
    /\ [][(pc = "r_get" /\ pc' # pc /\ NoRecordForKey) =>
             /\ pc' = "b_handle"
             /\ result'.success = FALSE
             /\ "error" \in DOMAIN result'
             /\ profiles' = profiles
             /\ transitions' = transitions
             /\ profile' = Unset]_vars
    /\ [](AfterLookup => ~NoRecordForKey)

C30_Witness ==
    /\ pc = "b_handle"
    /\ req.table \in Tables
    /\ Matching(profiles, req.table, req.url, req.company) = {}
    /\ result = [success |-> FALSE, error |-> "Profile not found in database"]

-----------------------------------------------------------------------------
\* The error kind that goes with what the scrape answered
KindOfFetchError(fresh_profile) ==
    IF "status_code" \in DOMAIN fresh_profile
    THEN IF fresh_profile.status_code = 429 THEN "rate_limit_exceeded"
         ELSE "api_error"
    ELSE IF fresh_profile.message = "ClientError" THEN "network_error"
    ELSE "unexpected_error"

\* C31: when the scrape fails during a refresh, refresh_single_profile
\* returns success = False with the error kind (rate_limit_exceeded for
\* 429, api_error for another status, network_error for a client error) and
\* the stored profile, refresh metadata included, is left as it was.
C31_ScrapeFailureLeavesStoreUnchanged ==
    [][(pc = "r_fetch" /\ pc' = "b_handle") =>
          /\ result'.success = FALSE
          /\ "error" \in DOMAIN profile'
          /\ result'.error = KindOfFetchError(profile')
          /\ result'.error \in FetchErrors
          /\ profiles' = profiles
          /\ transitions' = transitions]_vars

C31_Witness ==
    /\ pc = "b_handle"
    /\ result = [success |-> FALSE, error |-> "rate_limit_exceeded"]
    /\ "status_code" \in DOMAIN profile
    /\ profile.status_code = 429
    /\ \E i \in 1..Len(profiles) :
          /\ profiles[i].linkedin_url = req.url
          /\ profiles[i].refresh_status = None

-----------------------------------------------------------------------------
\* C32: in the create path the bare-profile insert comes before every label
\* computation and the label update is the second and last write; the label
\* update is attempted only if the insert succeeded: a rejected or failed
\* insert ends the pipeline with no further write.
C32_LabelUpdateOnlyAfterInsert ==
    /\ [][(InCreate /\ profiles' # profiles) => pc \in {"c_insert", "c_update"}]_vars
    /\ [][(pc = "c_insert" /\ pc' # pc /\ profiles' = profiles) => pc' = "idle"]_vars

-----------------------------------------------------------------------------
(* compare_profile_changes on profiles that differ in their experience *)

MaxExp == 2   \* entries of an experience list

\* One role, and the same role with one field changed
ExpEntries ==
    {Exp("Acme", "Founder", "1 yr", "2023 - Present"),
     Exp("Globex", "Founder", "1 yr", "2023 - Present"),
     Exp("Acme", "Co-Founder", "1 yr", "2023 - Present"),
     Exp("Acme", "Founder", "1 yr 1 mo", "2023 - Present"),
     Exp("Acme", "Founder", "1 yr", "2023 - 2024")}

ExpLists == UNION {[1..n -> ExpEntries] : n \in 0..MaxExp}

\* The stored row of a profile scraped with this experience
StoredWith(experience) ==
    InsertData(ScrapedProfile([BodyA EXCEPT !.experience = experience],
                              <<"a", "/">>),
               "Acme", FounderTable, 1)

\* The fresh profile scraped with this experience
FreshWith(experience) ==
    FreshProfile([BodyA EXCEPT !.experience = experience], <<"a", "/">>)

InitCompare ==
    /\ profiles = << >>
    /\ transitions = << >>
    /\ dbUp = TRUE
    /\ clock = 0
    /\ pc = "cmp_call"
    /\ req = Unset
    /\ \E new_exp \in ExpLists : profile = FreshWith(new_exp)
    /\ \E old_exp \in ExpLists : current = StoredWith(old_exp)
    /\ detected = Unset
    /\ cls = ClsIdle
    /\ labels = Unset
    /\ result = Unset
    /\ batch = Unset
    /\ log = "none"
    /\ examples = ExamplesInit

CallCompare ==
    /\ pc = "cmp_call"
    /\ detected' = compare_profile_changes(current, profile)
    /\ pc' = "cmp_done"
    /\ UNCHANGED <<profiles, transitions, dbUp, clock, req, profile, current,
                   cls, labels, result, batch, log,
                   examples>>

\* prepare_profile_updates on the change-set, up to the call of the gateway
CallPrepare ==
    /\ pc = "cmp_done"
    /\ cls' = ClsCall(auto_approve_of(detected),
                      Get(current, "profile_status", None), "cmp_return")
    /\ pc' = "cmp_prepared"
    /\ UNCHANGED <<profiles, transitions, dbUp, clock, req, profile, current,
                   detected, labels, result, batch, log,
                   examples>>

NextCompare == CallCompare \/ CallPrepare

SpecCompare == InitCompare /\ [][NextCompare]_vars

\* The two experience lists differ at most in the title, duration or
\* date_range of entries after the first
DiffersInOlderRolesOnly(old_exp, new_exp) ==
    /\ Len(old_exp) = Len(new_exp)
    /\ Len(old_exp) >= 1
    /\ old_exp[1] = new_exp[1]
    /\ \A i \in DOMAIN old_exp : old_exp[i].company = new_exp[i].company

\* C33: compare_profile_changes records experience_count iff the two
\* experience lists differ in length and recent_experience_<f> iff both
\* lists are non-empty and their first entries differ in f; a difference in
\* the title, duration or date_range of a later entry alone gives no change.
C33_ExperienceDiffFirstEntryOnly ==
    pc = "cmp_done" =>
        LET old_exp == current.experience
            new_exp == profile.experience
            changed == Range(detected.changed_fields)
        IN  /\ "experience_count" \in changed <=> Len(old_exp) # Len(new_exp)
            /\ \A f \in Range(exp_fields) :
                  RecentName(f) \in changed <=>
                     /\ old_exp # << >>
                     /\ new_exp # << >>
                     /\ old_exp[1][f] # new_exp[1][f]
            /\ DiffersInOlderRolesOnly(old_exp, new_exp) =>
                  /\ detected.changed_fields = << >>
                  /\ ~detected.has_changes

C33_Witness ==
    /\ pc = "cmp_done"
    /\ DiffersInOlderRolesOnly(current.experience, profile.experience)
    /\ Len(current.experience) = 2
    /\ current.experience[2].title # profile.experience[2].title
    /\ ~detected.has_changes

-----------------------------------------------------------------------------
ChangeSetConsistent(changes) ==
    /\ changes.has_changes <=> changes.changed_fields # << >>
    /\ DOMAIN changes.changes = Range(changes.changed_fields)

\* C34: in every change-set has_changes is true iff changed_fields is
\* non-empty, and the keys of changes are the changed_fields; this holds for
\* what compare_profile_changes returns and after prepare_profile_updates
\* has appended profile_status.
C34_ChangeSetConsistent ==
    /\ detected # Unset => ChangeSetConsistent(detected)
    /\ (pc = "b_handle" /\ "status" \in DOMAIN result /\ result.status # "no_changes")
          => ChangeSetConsistent(result.changes)

C34_Witness ==
    /\ pc = "b_handle"
    /\ detected # Unset
    /\ "profile_status" \in Range(detected.changed_fields)
    /\ Len(detected.changed_fields) >= 2
    /\ result.changes = detected

-----------------------------------------------------------------------------
\* C35: prepare_profile_updates calls the classifier with auto_approve =
\* True when the changed-field set is empty, exactly as when it holds only
\* non-critical fields.
C35_NoChangesEligibleForAutoApproval ==
    pc = "cmp_prepared" =>
        (Range(detected.changed_fields) \subseteq non_critical_fields
            => cls.auto_approve)

-----------------------------------------------------------------------------
\* C36: processing one profile changes no state that a later profile's
\* pipeline reads, the batch counters apart: the exemplars given to the
\* classifier for a profile are those of the start of the run, whatever
\* happened while an earlier profile was confirmed by the human.
C36_LaterProfileReadsSameExamples ==
    cls.ai # Unset => cls.examples = load_and_format_examples(ExamplesInit)

-----------------------------------------------------------------------------
\* C37: refresh_single_profile reports success = True only if its store
\* update succeeded: on the no_changes branch and on the updated branch a
\* rejected or failed update_profile_in_db gives success = False with
\* status 'failed'.
C37_SuccessOnlyIfUpdateSucceeded ==
    [][(/\ pc \in {"r_update", "r_nochange"}
        /\ pc' = "b_handle"
        /\ ~update_success(profiles, dbUp, req.url, req.company, req.table))
          => /\ result'.success = FALSE
             /\ result'.status = "failed"]_vars

-----------------------------------------------------------------------------
\* C38: the batch appends a StatusTransition only for a profile whose
\* update was persisted: when update_profile_in_db failed (success = False)
\* no record is inserted, so every record's new_status is the stored
\* profile_status of its profile at the time of the insert.
C38_TransitionOnlyForPersistedUpdate ==
    [][(pc = "b_handle" /\ Len(transitions') > Len(transitions)) =>
          /\ result.success
          /\ \E i \in 1..Len(profiles) :
                /\ profiles[i].id = transitions'[Len(transitions')].profile_id
                /\ profiles[i].profile_status
                      = transitions'[Len(transitions')].new_status]_vars

-----------------------------------------------------------------------------
StatusFieldsKept(i) ==
    /\ profiles'[i].profile_status = profiles[i].profile_status
    /\ profiles'[i].status_confidence_label = profiles[i].status_confidence_label

\* C39: when the resolved status of a refresh equals the stored
\* profile_status, no step of the update writes profile_status or
\* status_confidence_label, so both keep their values even if the
\* classifier returned another confidence; when it differs, the rows the
\* update reaches get both fields together.
C39_StatusFieldsWrittenTogether ==
    [][(pc = "r_update" /\ pc' = "b_handle") =>
          IF cls.result.status = Get(current, "profile_status", None)
          THEN \A i \in 1..Len(profiles) : StatusFieldsKept(i)
          ELSE \A i \in 1..Len(profiles) :
                  \/ profiles'[i] = profiles[i]
                  \/ /\ profiles'[i].profile_status = cls.result.status
                     /\ profiles'[i].status_confidence_label
                           = cls.result.confidence_label]_vars

C39_Witness ==
    /\ pc = "b_handle"
    /\ cls.done
    /\ result.success
    /\ result.status = "updated"
    /\ cls.result.status = current.profile_status
    /\ cls.result.confidence_label # current.status_confidence_label
    /\ \E i \in 1..Len(profiles) :
          /\ profiles[i].id = current.id
          /\ profiles[i].refresh_status = "success"
          /\ profiles[i].status_confidence_label = current.status_confidence_label

====
